---- MODULE Spec2Model ----
(***************************************************************************)
(* civicsync-be: the create-issue rate limiter (IssueRateLimiter behind    *)
(* AuthMiddleware, in front of CreateIssue) over the Redis counter store,  *)
(* and the vote toggle (HandleVoteOnIssue) over the votes collection.      *)
(* Every store round trip is one atomic step; requests interleave freely   *)
(* between their round trips.  The limiter is the two-argument             *)
(* IssueRateLimiter(limit, window) of middlewares/issueRateLimiter.go,     *)
(* the one IssueRoutes binds.                                              *)
(***************************************************************************)
EXTENDS Integers, FiniteSets, Sequences, TLC

\* ---------------------------------------------------------------- bounds
\* number of create-issue requests
NReq == 2
\* window length in clock ticks (the route passes 24h)
Window == 2
\* number of times one key may expire
MaxEpoch == 1
\* largest limit the limiter is constructed with in SpecLimiter
MaxLimit == 1
\* number of vote requests
NVoteReq == 3
\* number of registration requests
NRegReq == 2
\* vote requests in flight next to a DeleteIssue or a GetIssue
NIssueVoteReq == 2
\* vote requests in flight next to a DeleteIssue and an UpdateIssue
NOwnerVoteReq == 2
\* create-issue requests of one key whose times are measured
NBurstReq == 3
\* number of times the key may expire while times are measured
MaxBurstEpoch == 2

\* ------------------------------------------------------------- constants
\* go-redis TTL reply for a key that does not exist / has no expiry
NoKey == -2
NoExpiry == -1
\* zero value of time.Duration, what `ttl, _ :=` holds when TTL fails
ZeroDuration == 0
\* the limit the create-issue route passes to IssueRateLimiter
ConfiguredLimit == 2

Reqs == 1..NReq
BurstReqs == 1..NBurstReq
RegReqs == 1..NRegReq
\* the email addresses a client may register
Emails == {"e1", "e2"}
AllReqs == Reqs \cup BurstReqs
VoteReqs == 1..NVoteReq
\* user ids a signed token can carry
Principals == {"u1", "u2"}
\* cookie without a valid token
NoToken == "invalid"
\* values of the request header "user_id" ("" when the header is not sent)
HeaderVals == {"", "u1"}
\* ids of issues vote requests name; 0 exists, 9 does not
IssueIDs == {0, 9}

VARIABLES limit, count, ttl, epoch, req, issueCollection,
          voteCollection, uniqueIndex, vreq, dreq, greq, ureq, now,
          userCollection, rreq

vars == <<limit, count, ttl, epoch, req, issueCollection,
          voteCollection, uniqueIndex, vreq, dreq, greq, ureq, now,
          userCollection, rreq>>
limiterVars == <<limit, count, ttl, epoch, req, now>>
voteVars == <<voteCollection, uniqueIndex, vreq>>
issueVars == <<dreq, greq, ureq>>
userVars == <<userCollection, rreq>>

\* key := "rate_limit:" + userID
Key(userID) == <<"rate_limit:", userID>>
Keys == {Key(h) : h \in HeaderVals}

\* userID := c.GetHeader("user_id")
LimiterUserID(r) == req[r].header
LimiterKey(r) == Key(LimiterUserID(r))

\* an off-by-one comparison: count > int64(limit) + 1
ExceededOffByOne(n, lim) == n > lim + 1

\* count > int64(limit)
Exceeded(n, lim) == n > lim

NewReq == [pc |-> "idle", token |-> NoToken, header |-> "", user_id |-> "",
           count |-> 0, epoch |-> 0, fresh |-> FALSE, applied |-> FALSE,
           incrErr |-> FALSE,
           ttlErr |-> FALSE, status |-> 0, retry_after |-> 0,
           handler |-> FALSE, at |-> 0]

NewVoteReq == [pc |-> "idle", issue |-> 0, user |-> "u1", count |-> 0,
               err |-> "", status |-> 0, voted |-> FALSE, votes |-> 0,
               deleted |-> 0, actual |-> 0, orphan |-> FALSE,
               inserted |-> FALSE]

\* the DELETE /api/issue/delete/:id request and the GET /api/issue/:id request
NewDeleteReq == [pc |-> "idle", issue |-> 0, user |-> "u1", status |-> 0,
                 removed |-> FALSE, cascaded |-> FALSE]
\* the POST /api/auth/register request
NewRegReq == [pc |-> "idle", email |-> "e1", status |-> 0]
\* the PATCH /api/issue/update/:id request
NewUpdateReq == [pc |-> "idle", issue |-> 0, user |-> "u1", status |-> 0,
                 title |-> "a", updated |-> FALSE]
NewGetReq == [pc |-> "idle", issue |-> 0, status |-> 0, votes |-> 0,
              actual |-> 0]

\* Redis and MongoDB as main() finds them, before any request: no
\* rate-limit key, one issue, no votes, no unique index on votes.
InitStores ==
    /\ count = [k \in Keys |-> 0]
    /\ ttl = [k \in Keys |-> NoKey]
    /\ epoch = [k \in Keys |-> 0]
    /\ req = [r \in AllReqs |-> NewReq]
    /\ now = 0
    /\ issueCollection = {[id |-> 0, createdBy |-> "u1", title |-> "a"]}
    /\ voteCollection = {}
    /\ uniqueIndex = FALSE
    /\ vreq = [v \in VoteReqs |-> NewVoteReq]
    /\ dreq = NewDeleteReq
    /\ ureq = NewUpdateReq
    /\ userCollection = {}
    /\ rreq = [g \in RegReqs |-> NewRegReq]
    /\ greq = NewGetReq

\* the routes as IssueRoutes binds them: IssueRateLimiter(2, 24h)
Init == InitStores /\ limit = ConfiguredLimit

\* IssueRateLimiter(limit, window) constructed with any limit
InitLimiter == InitStores /\ limit \in 0..MaxLimit

\* ------------------------------------------------- create-issue requests
\* the 401 responses without c.Abort(): the chain goes on to the limiter
AuthMiddlewareNoAbort(r) ==
    /\ req[r].pc = "idle"
    /\ \A q \in Reqs : q < r => req[q].pc # "idle"
    /\ \/ req' = [req EXCEPT ![r] = [@ EXCEPT !.pc = "incr", !.status = 401]]
       \/ \E tok \in Principals, h \in HeaderVals :
            req' = [req EXCEPT ![r] = [@ EXCEPT !.pc = "incr", !.token = tok,
                                        !.header = h, !.user_id = tok]]
    /\ UNCHANGED <<limit, count, ttl, epoch, issueCollection>>
    /\ UNCHANGED voteVars
    /\ UNCHANGED issueVars
    /\ UNCHANGED userVars
    /\ UNCHANGED now

\* A request arrives on POST /api/issue/create and runs AuthMiddleware:
\* no or invalid auth_token cookie aborts with 401, a valid one stores the
\* token's user_id claim in the request context and calls c.Next().
AuthMiddleware(r) ==
    /\ req[r].pc = "idle"
    /\ \A q \in Reqs : q < r => req[q].pc # "idle"
    /\ \/ req' = [req EXCEPT ![r] = [@ EXCEPT !.pc = "done", !.status = 401]]
       \/ \E tok \in Principals, h \in HeaderVals :
            req' = [req EXCEPT ![r] = [@ EXCEPT !.pc = "incr", !.token = tok,
                                        !.header = h, !.user_id = tok]]
    /\ UNCHANGED <<limit, count, ttl, epoch, issueCollection>>
    /\ UNCHANGED voteVars
    /\ UNCHANGED issueVars
    /\ UNCHANGED userVars
    /\ UNCHANGED now

\* a limiter that sets the expiry after every INCR (a sliding expiry)
AfterIncrAlwaysExpire(n) == "expire"

\* Where the limiter goes after a successful INCR that returned n.
AfterIncr(n) ==
    IF n = 1 THEN "expire"
    ELSE IF Exceeded(n, limit) THEN "ttl" ELSE "create"

\* SET key 1 in place of INCR: every caller gets 1
IncrAlwaysOne(c) == 1

\* a counter that stops counting once the limit is reached
IncrSkipsDenied(c) == IF c >= limit THEN c ELSE c + 1

\* INCR: the value the store writes and returns
Incr(c) == c + 1

\* count, err := RedisClient.Incr(ctx, key).Result() with err == nil: the
\* key is created at 1 without expiry, or incremented, in one atomic step.
IncrOk(r) ==
    /\ req[r].pc = "incr"
    /\ LET k == LimiterKey(r)
           n == Incr(count[k])
       IN /\ count' = [count EXCEPT ![k] = n]
          /\ ttl' = [ttl EXCEPT ![k] = IF ttl[k] = NoKey THEN NoExpiry ELSE @]
          /\ req' = [req EXCEPT ![r] = [@ EXCEPT !.pc = AfterIncr(n),
                                         !.count = n, !.epoch = epoch[k],
                                         !.fresh = (ttl[k] = NoKey),
                                         !.applied = TRUE, !.at = now]]
    /\ UNCHANGED <<limit, epoch, issueCollection>>
    /\ UNCHANGED voteVars
    /\ UNCHANGED issueVars
    /\ UNCHANGED userVars
    /\ UNCHANGED now

\* a limiter that fails open: on an Incr error it calls c.Next()
IncrErrFailOpen(r) ==
    /\ req[r].pc = "incr"
    /\ req' = [req EXCEPT ![r] = [@ EXCEPT !.pc = "create", !.incrErr = TRUE,
                                   !.epoch = epoch[LimiterKey(r)]]]
    /\ UNCHANGED <<limit, count, ttl, epoch, issueCollection>>
    /\ UNCHANGED voteVars
    /\ UNCHANGED issueVars
    /\ UNCHANGED userVars
    /\ UNCHANGED now

\* Incr returns an error: the store was not reached (lost = FALSE) or the
\* command ran and its reply was lost (lost = TRUE).  The limiter answers
\* 500 "redis error" and aborts.
IncrErr(r) ==
    /\ req[r].pc = "incr"
    /\ \E lost \in BOOLEAN :
         LET k == LimiterKey(r)
         IN /\ count' = [count EXCEPT ![k] = IF lost THEN Incr(@) ELSE @]
            /\ ttl' = [ttl EXCEPT ![k] = IF lost /\ ttl[k] = NoKey
                                          THEN NoExpiry ELSE @]
            /\ req' = [req EXCEPT ![r] = [@ EXCEPT !.pc = "done",
                                           !.status = 500,
                                           !.incrErr = TRUE,
                                           !.epoch = epoch[k],
                                           !.fresh = (lost /\ ttl[k] = NoKey),
                                           !.applied = lost, !.at = now]]
    /\ UNCHANGED <<limit, epoch, issueCollection>>
    /\ UNCHANGED voteVars
    /\ UNCHANGED issueVars
    /\ UNCHANGED userVars
    /\ UNCHANGED now

\* Where the limiter goes after the n == 1 branch.
AfterExpire(r) ==
    IF Exceeded(req[r].count, limit) THEN "ttl" ELSE "create"

\* an Expire one tick short of the window
ExpireShort(r) ==
    /\ req[r].pc = "expire"
    /\ \E ok \in BOOLEAN :
         LET k == LimiterKey(r)
         IN ttl' = [ttl EXCEPT ![k] = IF ok /\ ttl[k] # NoKey
                                       THEN Window - 1 ELSE @]
    /\ req' = [req EXCEPT ![r] = [@ EXCEPT !.pc = AfterExpire(r)]]
    /\ UNCHANGED <<limit, count, epoch, issueCollection>>
    /\ UNCHANGED voteVars
    /\ UNCHANGED issueVars
    /\ UNCHANGED userVars
    /\ UNCHANGED now

\* if count == 1 { RedisClient.Expire(ctx, key, window) }: the result is
\* discarded; ok = FALSE is a failed round trip that sets no expiry.
Expire(r) ==
    /\ req[r].pc = "expire"
    /\ \E ok \in BOOLEAN :
         LET k == LimiterKey(r)
         IN ttl' = [ttl EXCEPT ![k] = IF ok /\ ttl[k] # NoKey THEN Window ELSE @]
    /\ req' = [req EXCEPT ![r] = [@ EXCEPT !.pc = AfterExpire(r)]]
    /\ UNCHANGED <<limit, count, epoch, issueCollection>>
    /\ UNCHANGED voteVars
    /\ UNCHANGED issueVars
    /\ UNCHANGED userVars
    /\ UNCHANGED now

\* ttl, _ := RedisClient.TTL(ctx, key).Result(): the reply of TTL, or the
\* zero duration when the round trip fails.
TTLResult(k, ok) == IF ok THEN ttl[k] ELSE ZeroDuration

\* a 429 response without c.Abort(): the chain goes on to the handler
BlockNoAbort(r) ==
    /\ req[r].pc = "ttl"
    /\ \E ok \in BOOLEAN :
         req' = [req EXCEPT ![r] = [@ EXCEPT !.pc = "create", !.status = 429,
                   !.ttlErr = ~ok,
                   !.retry_after = TTLResult(LimiterKey(r), ok)]]
    /\ UNCHANGED <<limit, count, ttl, epoch, issueCollection>>
    /\ UNCHANGED voteVars
    /\ UNCHANGED issueVars
    /\ UNCHANGED userVars
    /\ UNCHANGED now

\* Block if exceeded limit: 429 with retry_after = ttl.Seconds(), abort.
Block(r) ==
    /\ req[r].pc = "ttl"
    /\ \E ok \in BOOLEAN :
         req' = [req EXCEPT ![r] = [@ EXCEPT !.pc = "done", !.status = 429,
                   !.ttlErr = ~ok,
                   !.retry_after = TTLResult(LimiterKey(r), ok)]]
    /\ UNCHANGED <<limit, count, ttl, epoch, issueCollection>>
    /\ UNCHANGED voteVars
    /\ UNCHANGED issueVars
    /\ UNCHANGED userVars
    /\ UNCHANGED now

\* a handler that gives the slot back (DECR) when it fails
CreateIssueRefund(r) ==
    /\ req[r].pc = "create"
    /\ \E valid \in BOOLEAN, inserted \in BOOLEAN :
         IF ~(valid /\ inserted)
         THEN /\ req' = [req EXCEPT ![r] = [@ EXCEPT !.pc = "done",
                           !.handler = TRUE,
                           !.status = IF valid THEN 500 ELSE 400]]
              /\ count' = [count EXCEPT ![LimiterKey(r)] =
                                          IF @ > 0 THEN @ - 1 ELSE @]
              /\ UNCHANGED issueCollection
         ELSE /\ req' = [req EXCEPT ![r] = [@ EXCEPT !.pc = "done",
                           !.handler = TRUE, !.status = 201]]
              /\ issueCollection' = issueCollection \cup
                     {[id |-> r, createdBy |-> req[r].user_id, title |-> "a"]}
              /\ UNCHANGED count
    /\ UNCHANGED <<limit, ttl, epoch>>
    /\ UNCHANGED voteVars
    /\ UNCHANGED issueVars
    /\ UNCHANGED userVars
    /\ UNCHANGED now

\* c.Next() reaches CreateIssue: an invalid body, category or status ends
\* with 400 before the insert; InsertOne fails with 500 or stores the issue.
CreateIssue(r) ==
    /\ req[r].pc = "create"
    /\ \E valid \in BOOLEAN, inserted \in BOOLEAN :
         IF ~valid
         THEN /\ req' = [req EXCEPT ![r] = [@ EXCEPT !.pc = "done",
                           !.handler = TRUE, !.status = 400]]
              /\ UNCHANGED issueCollection
         ELSE IF ~inserted
         THEN /\ req' = [req EXCEPT ![r] = [@ EXCEPT !.pc = "done",
                           !.handler = TRUE, !.status = 500]]
              /\ UNCHANGED issueCollection
         ELSE /\ req' = [req EXCEPT ![r] = [@ EXCEPT !.pc = "done",
                           !.handler = TRUE, !.status = 201]]
              /\ issueCollection' = issueCollection \cup
                     {[id |-> r, createdBy |-> req[r].user_id, title |-> "a"]}
    /\ UNCHANGED <<limit, count, ttl, epoch>>
    /\ UNCHANGED voteVars
    /\ UNCHANGED issueVars
    /\ UNCHANGED userVars
    /\ UNCHANGED now

\* One tick of the Redis clock: every key with an expiry loses one tick and
\* a key whose time is up is removed (the next INCR starts again from 1).
TickStores(maxEpoch) ==
    /\ \E k \in Keys : ttl[k] > 0
    /\ \A k \in Keys : ttl[k] = 1 => epoch[k] < maxEpoch
    /\ ttl' = [k \in Keys |-> IF ttl[k] > 1 THEN ttl[k] - 1
                              ELSE IF ttl[k] = 1 THEN NoKey ELSE ttl[k]]
    /\ count' = [k \in Keys |-> IF ttl[k] = 1 THEN 0 ELSE count[k]]
    /\ epoch' = [k \in Keys |-> IF ttl[k] = 1 THEN epoch[k] + 1 ELSE epoch[k]]
    /\ UNCHANGED <<limit, req, issueCollection>>
    /\ UNCHANGED voteVars
    /\ UNCHANGED issueVars
    /\ UNCHANGED userVars

\* a tick with nobody reading the time
Tick == TickStores(MaxEpoch) /\ UNCHANGED now

\* a tick that also moves the clock the requests' times are read from
TimedTick == TickStores(MaxBurstEpoch) /\ now' = now + 1

NextLimiter ==
    \/ \E r \in Reqs : AuthMiddleware(r)
    \/ \E r \in Reqs : IncrOk(r)
    \/ \E r \in Reqs : IncrErr(r)
    \/ \E r \in Reqs : Expire(r)
    \/ \E r \in Reqs : Block(r)
    \/ \E r \in Reqs : CreateIssue(r)
    \/ Tick

SpecLimiter == InitLimiter /\ [][NextLimiter]_vars

\* A client that sends its next create-issue request only after the response
\* to the previous one: the handlers run one at a time.
SequentialArrival(r) ==
    /\ \A q \in Reqs : req[q].pc \in {"idle", "done"}
    /\ AuthMiddleware(r)

NextSequential ==
    \/ \E r \in Reqs : SequentialArrival(r)
    \/ \E r \in Reqs : IncrOk(r)
    \/ \E r \in Reqs : IncrErr(r)
    \/ \E r \in Reqs : Expire(r)
    \/ \E r \in Reqs : Block(r)
    \/ \E r \in Reqs : CreateIssue(r)
    \/ Tick

SpecSequential == InitLimiter /\ [][NextSequential]_vars

\* The create-issue requests of one client that sends its own id in the
\* user_id header and waits for each response, all on the key
\* rate_limit:u1, with their times measured.
BurstArrival(r) ==
    /\ \A q \in BurstReqs : req[q].pc \in {"idle", "done"}
    /\ AuthMiddleware(r)
    /\ req'[r].token = "u1" /\ req'[r].header = "u1"

NextBurst ==
    \/ \E r \in BurstReqs : BurstArrival(r)
    \/ \E r \in BurstReqs : IncrOk(r)
    \/ \E r \in BurstReqs : IncrErr(r)
    \/ \E r \in BurstReqs : Expire(r)
    \/ \E r \in BurstReqs : Block(r)
    \/ \E r \in BurstReqs : CreateIssue(r)
    \/ TimedTick

SpecBurst == InitLimiter /\ [][NextBurst]_vars

\* ---------------------------------------------------------- vote requests
\* primitive.ObjectIDFromHex accepts the id
IsObjectIDHex(idParam) == idParam \in IssueIDs

\* the issue ids a client may put in the path; -1 is not an ObjectID
IdParams == IssueIDs \cup {-1}

\* a filter that forgets the user: bson.M{"issue": issueID}
VotesOfAnyUser(issueID, userObjID) ==
    {d \in voteCollection : d.issue = issueID}

\* bson.M{"issue": issueID, "user": userObjID}
VotesOf(issueID, userObjID) ==
    {d \in voteCollection : d.issue = issueID /\ d.user = userObjID}

\* bson.M{"issue": issueID}
VotesOn(issueID) == {d \in voteCollection : d.issue = issueID}

\* the unique compound index on (issue, user) admits the collection
NoDuplicates(docs) ==
    \A d1, d2 \in docs : (d1.issue = d2.issue /\ d1.user = d2.user) => d1 = d2

\* EnsureVoteIndex: Indexes().CreateOne with SetUnique(true); the build is
\* refused while the collection holds duplicates.  No code path of main()
\* calls it, so the index is there only once somebody has run it.
EnsureVoteIndex ==
    /\ ~uniqueIndex
    /\ NoDuplicates(voteCollection)
    /\ uniqueIndex' = TRUE
    /\ UNCHANGED <<voteCollection, vreq, issueCollection>>
    /\ UNCHANGED limiterVars
    /\ UNCHANGED issueVars
    /\ UNCHANGED userVars

\* POST /api/issue/vote/:id through AuthMiddleware up to the first store
\* round trip: 401 without a valid token, 400 for a malformed issue id.
VoteBegin(v) ==
    /\ vreq[v].pc = "idle"
    /\ \A q \in VoteReqs : q < v => vreq[q].pc # "idle"
    /\ \/ vreq' = [vreq EXCEPT ![v] = [@ EXCEPT !.pc = "done", !.status = 401]]
       \/ \E idParam \in IdParams, u \in Principals :
            IF ~IsObjectIDHex(idParam)
            THEN vreq' = [vreq EXCEPT ![v] = [@ EXCEPT !.pc = "done",
                            !.issue = idParam, !.user = u, !.status = 400]]
            ELSE vreq' = [vreq EXCEPT ![v] = [@ EXCEPT !.pc = "find",
                            !.issue = idParam, !.user = u]]
    /\ UNCHANGED <<voteCollection, uniqueIndex, issueCollection>>
    /\ UNCHANGED limiterVars
    /\ UNCHANGED issueVars
    /\ UNCHANGED userVars

\* a lookup that goes on when FindOne returns ErrNoDocuments
VoteFindIssueIgnoresMissing(v) ==
    /\ vreq[v].pc = "find"
    /\ \E ok \in BOOLEAN :
         IF ~ok
         THEN vreq' = [vreq EXCEPT ![v] = [@ EXCEPT !.pc = "done",
                         !.err = "store", !.status = 500]]
         ELSE vreq' = [vreq EXCEPT ![v] = [@ EXCEPT !.pc = "check"]]
    /\ UNCHANGED <<voteCollection, uniqueIndex, issueCollection>>
    /\ UNCHANGED limiterVars
    /\ UNCHANGED issueVars
    /\ UNCHANGED userVars

\* issueCollection.FindOne: 500 on a store error, 404 when no such issue.
VoteFindIssue(v) ==
    /\ vreq[v].pc = "find"
    /\ \E ok \in BOOLEAN :
         IF ~ok
         THEN vreq' = [vreq EXCEPT ![v] = [@ EXCEPT !.pc = "done",
                         !.err = "store", !.status = 500]]
         ELSE IF \A d \in issueCollection : d.id # vreq[v].issue
         THEN vreq' = [vreq EXCEPT ![v] = [@ EXCEPT !.pc = "done", !.status = 404]]
         ELSE vreq' = [vreq EXCEPT ![v] = [@ EXCEPT !.pc = "check"]]
    /\ UNCHANGED <<voteCollection, uniqueIndex, issueCollection>>
    /\ UNCHANGED limiterVars
    /\ UNCHANGED issueVars
    /\ UNCHANGED userVars

\* count, err := voteCollection.CountDocuments({issue, user}); count > 0
\* takes the delete branch, otherwise the insert branch.
VoteCheckExisting(v) ==
    /\ vreq[v].pc = "check"
    /\ \E ok \in BOOLEAN :
         IF ~ok
         THEN vreq' = [vreq EXCEPT ![v] = [@ EXCEPT !.pc = "done",
                         !.err = "store", !.status = 500]]
         ELSE LET n == Cardinality(VotesOf(vreq[v].issue, vreq[v].user))
              IN vreq' = [vreq EXCEPT ![v] = [@ EXCEPT !.count = n,
                            !.pc = IF n > 0 THEN "delete" ELSE "insert"]]
    /\ UNCHANGED <<voteCollection, uniqueIndex, issueCollection>>
    /\ UNCHANGED limiterVars
    /\ UNCHANGED issueVars
    /\ UNCHANGED userVars

\* a delete that takes DeletedCount = 0 for a failure
VoteDeleteOneStrict(v) ==
    /\ vreq[v].pc = "delete"
    /\ LET match == VotesOf(vreq[v].issue, vreq[v].user)
       IN \/ /\ vreq' = [vreq EXCEPT ![v] = [@ EXCEPT !.pc = "done",
                           !.err = "store", !.status = 500]]
             /\ UNCHANGED voteCollection
          \/ \E d \in match :
               /\ voteCollection' = voteCollection \ {d}
               /\ vreq' = [vreq EXCEPT ![v] = [@ EXCEPT !.pc = "done",
                             !.err = "store", !.status = 500,
                             !.deleted = 1]]
          \/ /\ match = {}
             /\ vreq' = [vreq EXCEPT ![v] = [@ EXCEPT !.pc = "done",
                           !.status = 500, !.deleted = 0]]
             /\ UNCHANGED voteCollection
          \/ \E d \in match :
               /\ voteCollection' = voteCollection \ {d}
               /\ vreq' = [vreq EXCEPT ![v] = [@ EXCEPT !.pc = "recount",
                             !.voted = FALSE, !.deleted = 1]]
    /\ UNCHANGED <<uniqueIndex, issueCollection>>
    /\ UNCHANGED limiterVars
    /\ UNCHANGED issueVars
    /\ UNCHANGED userVars

\* voteCollection.DeleteOne({issue, user}): removes one matching document,
\* none when nothing matches (not an error); 500 on a store error, which
\* the 10 s context deadline also raises after the store has removed the
\* document.
VoteDeleteOne(v) ==
    /\ vreq[v].pc = "delete"
    /\ LET match == VotesOf(vreq[v].issue, vreq[v].user)
       IN \/ /\ vreq' = [vreq EXCEPT ![v] = [@ EXCEPT !.pc = "done",
                           !.err = "store", !.status = 500]]
             /\ UNCHANGED voteCollection
          \/ \E d \in match :
               /\ voteCollection' = voteCollection \ {d}
               /\ vreq' = [vreq EXCEPT ![v] = [@ EXCEPT !.pc = "done",
                             !.err = "store", !.status = 500,
                             !.deleted = 1]]
          \/ /\ match = {}
             /\ vreq' = [vreq EXCEPT ![v] = [@ EXCEPT !.pc = "recount",
                           !.voted = FALSE, !.deleted = 0]]
             /\ UNCHANGED voteCollection
          \/ \E d \in match :
               /\ voteCollection' = voteCollection \ {d}
               /\ vreq' = [vreq EXCEPT ![v] = [@ EXCEPT !.pc = "recount",
                             !.voted = FALSE, !.deleted = 1]]
    /\ UNCHANGED <<uniqueIndex, issueCollection>>
    /\ UNCHANGED limiterVars
    /\ UNCHANGED issueVars
    /\ UNCHANGED userVars

\* the insert is refused by the unique index on (issue, user)
DuplicateKey(doc) ==
    uniqueIndex /\ VotesOf(doc.issue, doc.user) # {}

\* what HandleVoteOnIssue does with a non-nil err of InsertOne, whatever
\* the error is: 500 "Failed to cast vote"
InsertErrStatus(e) == 500

\* voteCollection.InsertOne(vote) with a fresh ObjectID: 500 on any error,
\* the duplicate-key error included, and the 10 s context deadline that
\* passes after the store has inserted the document.
VoteInsertOne(v) ==
    /\ vreq[v].pc = "insert"
    /\ LET vote == [id |-> v, issue |-> vreq[v].issue, user |-> vreq[v].user]
       IN \/ /\ vreq' = [vreq EXCEPT ![v] = [@ EXCEPT !.pc = "done",
                           !.err = "store", !.status = InsertErrStatus("store")]]
             /\ UNCHANGED voteCollection
          \/ /\ DuplicateKey(vote)
             /\ vreq' = [vreq EXCEPT ![v] = [@ EXCEPT !.pc = "done",
                           !.err = "duplicate",
                           !.status = InsertErrStatus("duplicate")]]
             /\ UNCHANGED voteCollection
          \/ /\ ~DuplicateKey(vote)
             /\ voteCollection' = voteCollection \cup {vote}
             /\ vreq' = [vreq EXCEPT ![v] = [@ EXCEPT !.pc = "recount",
                           !.voted = TRUE, !.inserted = TRUE,
                           !.orphan = \A d \in issueCollection :
                                         d.id # vreq[v].issue]]
          \/ /\ ~DuplicateKey(vote)
             /\ voteCollection' = voteCollection \cup {vote}
             /\ vreq' = [vreq EXCEPT ![v] = [@ EXCEPT !.pc = "done",
                           !.err = "store",
                           !.status = InsertErrStatus("store"),
                           !.inserted = TRUE,
                           !.orphan = \A d \in issueCollection :
                                         d.id # vreq[v].issue]]
    /\ UNCHANGED <<uniqueIndex, issueCollection>>
    /\ UNCHANGED limiterVars
    /\ UNCHANGED issueVars
    /\ UNCHANGED userVars

\* updatedVoteCount when the recount fails: 1 after a vote, 0 after an unvote
FallbackCount(voted) == IF voted THEN 1 ELSE 0

\* updatedVoteCount, err := voteCollection.CountDocuments({issue}) and the
\* 200 response with voted and votes.
VoteRecount(v) ==
    /\ vreq[v].pc = "recount"
    /\ \E ok \in BOOLEAN :
         vreq' = [vreq EXCEPT ![v] = [@ EXCEPT !.pc = "done", !.status = 200,
                    !.actual = Cardinality(VotesOn(vreq[v].issue)),
                    !.votes = IF ok THEN Cardinality(VotesOn(vreq[v].issue))
                              ELSE FallbackCount(vreq[v].voted)]]
    /\ UNCHANGED <<voteCollection, uniqueIndex, issueCollection>>
    /\ UNCHANGED limiterVars
    /\ UNCHANGED issueVars
    /\ UNCHANGED userVars

NextVote ==
    \/ EnsureVoteIndex
    \/ \E v \in VoteReqs : VoteBegin(v)
    \/ \E v \in VoteReqs : VoteFindIssue(v)
    \/ \E v \in VoteReqs : VoteCheckExisting(v)
    \/ \E v \in VoteReqs : VoteDeleteOne(v)
    \/ \E v \in VoteReqs : VoteInsertOne(v)
    \/ \E v \in VoteReqs : VoteRecount(v)

SpecVote == Init /\ [][NextVote]_vars

\* A client that sends its next vote request only after the response to the
\* previous one: the handlers run one at a time.
VoteSequentialArrival(v) ==
    /\ \A q \in VoteReqs : vreq[q].pc \in {"idle", "done"}
    /\ VoteBegin(v)

NextVoteSequential ==
    \/ EnsureVoteIndex
    \/ \E v \in VoteReqs : VoteSequentialArrival(v)
    \/ \E v \in VoteReqs : VoteFindIssue(v)
    \/ \E v \in VoteReqs : VoteCheckExisting(v)
    \/ \E v \in VoteReqs : VoteDeleteOne(v)
    \/ \E v \in VoteReqs : VoteInsertOne(v)
    \/ \E v \in VoteReqs : VoteRecount(v)

SpecVoteSequential == Init /\ [][NextVoteSequential]_vars

\* --------------------------------------------- deleting and reading issues
\* DeleteIssue up to the first store round trip, behind AuthMiddleware:
\* 401 without a valid token, 400 for a malformed issue id.
DeleteIssueBegin ==
    /\ dreq.pc = "idle"
    /\ \/ dreq' = [dreq EXCEPT !.pc = "done", !.status = 401]
       \/ \E idParam \in IdParams, u \in Principals :
            IF ~IsObjectIDHex(idParam)
            THEN dreq' = [dreq EXCEPT !.pc = "done", !.issue = idParam,
                                      !.user = u, !.status = 400]
            ELSE dreq' = [dreq EXCEPT !.pc = "find", !.issue = idParam,
                                      !.user = u]
    /\ UNCHANGED <<issueCollection, greq, ureq>>
    /\ UNCHANGED <<limiterVars, voteVars, userVars>>

\* a DeleteIssue without the owner check
DeleteIssueFindAnyUser ==
    /\ dreq.pc = "find"
    /\ \E ok \in BOOLEAN :
         IF ~ok
         THEN dreq' = [dreq EXCEPT !.pc = "done", !.status = 500]
         ELSE IF \A d \in issueCollection : d.id # dreq.issue
         THEN dreq' = [dreq EXCEPT !.pc = "done", !.status = 404]
         ELSE dreq' = [dreq EXCEPT !.pc = "remove"]
    /\ UNCHANGED <<issueCollection, greq, ureq>>
    /\ UNCHANGED <<limiterVars, voteVars, userVars>>

\* issueCollection.FindOne and the owner check: 500 on a store error, 404
\* when no such issue, 403 when the issue was created by somebody else.
DeleteIssueFind ==
    /\ dreq.pc = "find"
    /\ \E ok \in BOOLEAN :
         IF ~ok
         THEN dreq' = [dreq EXCEPT !.pc = "done", !.status = 500]
         ELSE IF \A d \in issueCollection : d.id # dreq.issue
         THEN dreq' = [dreq EXCEPT !.pc = "done", !.status = 404]
         ELSE IF \E d \in issueCollection :
                     d.id = dreq.issue /\ d.createdBy # dreq.user
         THEN dreq' = [dreq EXCEPT !.pc = "done", !.status = 403]
         ELSE dreq' = [dreq EXCEPT !.pc = "remove"]
    /\ UNCHANGED <<issueCollection, greq, ureq>>
    /\ UNCHANGED <<limiterVars, voteVars, userVars>>

\* issueCollection.DeleteOne({_id}): 500 on a store error
DeleteIssueRemove ==
    /\ dreq.pc = "remove"
    /\ \E ok \in BOOLEAN :
         IF ~ok
         THEN /\ dreq' = [dreq EXCEPT !.pc = "done", !.status = 500]
              /\ UNCHANGED issueCollection
         ELSE /\ dreq' = [dreq EXCEPT !.pc = "cascade", !.removed = TRUE]
              /\ issueCollection' =
                    {d \in issueCollection : d.id # dreq.issue}
    /\ UNCHANGED <<greq, ureq>>
    /\ UNCHANGED <<limiterVars, voteVars, userVars>>

\* a cascade whose failure fails the request
DeleteIssueCascadeFatal ==
    /\ dreq.pc = "cascade"
    /\ \E ok \in BOOLEAN :
         IF ok
         THEN /\ voteCollection' = voteCollection \ VotesOn(dreq.issue)
              /\ dreq' = [dreq EXCEPT !.pc = "done", !.status = 200,
                                       !.cascaded = TRUE]
         ELSE /\ UNCHANGED voteCollection
              /\ dreq' = [dreq EXCEPT !.pc = "done", !.status = 500]
    /\ UNCHANGED <<uniqueIndex, vreq, issueCollection, greq, ureq>>
    /\ UNCHANGED <<limiterVars, userVars>>

\* a cascade that filters on the vote's own id instead of its issue
DeleteIssueCascadeWrongFilter ==
    /\ dreq.pc = "cascade"
    /\ \E ok \in BOOLEAN :
         /\ voteCollection' =
               IF ok THEN {d \in voteCollection : d.id # dreq.issue}
               ELSE voteCollection
         /\ dreq' = [dreq EXCEPT !.pc = "done", !.status = 200,
                                  !.cascaded = ok]
    /\ UNCHANGED <<uniqueIndex, vreq, issueCollection, greq, ureq>>
    /\ UNCHANGED <<limiterVars, userVars>>

\* _, _ = voteCollection.DeleteMany({issue}) and the 200 response: the
\* result and the error of the bulk delete are dropped.
DeleteIssueCascade ==
    /\ dreq.pc = "cascade"
    /\ \E ok \in BOOLEAN :
         /\ voteCollection' =
               IF ok THEN voteCollection \ VotesOn(dreq.issue)
               ELSE voteCollection
         /\ dreq' = [dreq EXCEPT !.pc = "done", !.status = 200,
                                  !.cascaded = ok]
    /\ UNCHANGED <<uniqueIndex, vreq, issueCollection, greq, ureq>>
    /\ UNCHANGED <<limiterVars, userVars>>

\* the titles a client may send to UpdateIssue; issues start with title "a"
Titles == {"b"}

\* UpdateIssue up to the first store round trip, behind AuthMiddleware: 401
\* without a valid token, 400 for a malformed issue id or an unreadable body.
UpdateIssueBegin ==
    /\ ureq.pc = "idle"
    /\ \/ ureq' = [ureq EXCEPT !.pc = "done", !.status = 401]
       \/ \E idParam \in IdParams, u \in Principals, t \in Titles,
             bound \in BOOLEAN :
            IF ~IsObjectIDHex(idParam) \/ ~bound
            THEN ureq' = [ureq EXCEPT !.pc = "done", !.issue = idParam,
                                      !.user = u, !.status = 400]
            ELSE ureq' = [ureq EXCEPT !.pc = "find", !.issue = idParam,
                                      !.user = u, !.title = t]
    /\ UNCHANGED <<issueCollection, dreq, greq>>
    /\ UNCHANGED <<limiterVars, voteVars, userVars>>

\* issueCollection.FindOne, the owner check and the checks of category and
\* status: 500 on a store error, 404 when no such issue, 403 when the issue
\* was created by somebody else, 400 for an invalid category or status.
UpdateIssueFind ==
    /\ ureq.pc = "find"
    /\ \E ok \in BOOLEAN, valid \in BOOLEAN :
         IF ~ok
         THEN ureq' = [ureq EXCEPT !.pc = "done", !.status = 500]
         ELSE IF \A d \in issueCollection : d.id # ureq.issue
         THEN ureq' = [ureq EXCEPT !.pc = "done", !.status = 404]
         ELSE IF \E d \in issueCollection :
                     d.id = ureq.issue /\ d.createdBy # ureq.user
         THEN ureq' = [ureq EXCEPT !.pc = "done", !.status = 403]
         ELSE IF ~valid
         THEN ureq' = [ureq EXCEPT !.pc = "done", !.status = 400]
         ELSE ureq' = [ureq EXCEPT !.pc = "update"]
    /\ UNCHANGED <<issueCollection, dreq, greq>>
    /\ UNCHANGED <<limiterVars, voteVars, userVars>>

\* issueCollection.UpdateOne({_id}, {$set: update}): 500 on a store error;
\* a filter that matches no document is not an error.
UpdateIssueApply ==
    /\ ureq.pc = "update"
    /\ \E ok \in BOOLEAN :
         IF ~ok
         THEN /\ ureq' = [ureq EXCEPT !.pc = "done", !.status = 500]
              /\ UNCHANGED issueCollection
         ELSE /\ ureq' = [ureq EXCEPT !.pc = "done", !.status = 200,
                                       !.updated = TRUE]
              /\ issueCollection' =
                    {IF d.id = ureq.issue
                     THEN [d EXCEPT !.title = ureq.title] ELSE d
                       : d \in issueCollection}
    /\ UNCHANGED <<dreq, greq>>
    /\ UNCHANGED <<limiterVars, voteVars, userVars>>

\* GetIssue up to the first store round trip: 400 for a malformed issue id
GetIssueBegin ==
    /\ greq.pc = "idle"
    /\ \E idParam \in IdParams :
         IF ~IsObjectIDHex(idParam)
         THEN greq' = [greq EXCEPT !.pc = "done", !.issue = idParam,
                                   !.status = 400]
         ELSE greq' = [greq EXCEPT !.pc = "find", !.issue = idParam]
    /\ UNCHANGED <<issueCollection, dreq, ureq>>
    /\ UNCHANGED <<limiterVars, voteVars, userVars>>

\* issueCollection.FindOne: 500 on a store error, 404 when no such issue
GetIssueFind ==
    /\ greq.pc = "find"
    /\ \E ok \in BOOLEAN :
         IF ~ok
         THEN greq' = [greq EXCEPT !.pc = "done", !.status = 500]
         ELSE IF \A d \in issueCollection : d.id # greq.issue
         THEN greq' = [greq EXCEPT !.pc = "done", !.status = 404]
         ELSE greq' = [greq EXCEPT !.pc = "count"]
    /\ UNCHANGED <<issueCollection, dreq, ureq>>
    /\ UNCHANGED <<limiterVars, voteVars, userVars>>

\* voteCount, err := voteCollection.CountDocuments({issue}); voteCount = 0
\* when err != nil; the 200 response carries it as votes.
GetIssueCount ==
    /\ greq.pc = "count"
    /\ \E ok \in BOOLEAN :
         greq' = [greq EXCEPT !.pc = "done", !.status = 200,
                    !.actual = Cardinality(VotesOn(greq.issue)),
                    !.votes = IF ok THEN Cardinality(VotesOn(greq.issue))
                              ELSE 0]
    /\ UNCHANGED <<issueCollection, dreq, ureq>>
    /\ UNCHANGED <<limiterVars, voteVars, userVars>>

\* the vote requests that run next to the delete and the read
IssueVoteReqs == 1..NIssueVoteReq

\* vote requests and one DeleteIssue request
NextDelete ==
    \/ \E v \in IssueVoteReqs : VoteBegin(v)
    \/ \E v \in IssueVoteReqs : VoteFindIssue(v)
    \/ \E v \in IssueVoteReqs : VoteCheckExisting(v)
    \/ \E v \in IssueVoteReqs : VoteDeleteOne(v)
    \/ \E v \in IssueVoteReqs : VoteInsertOne(v)
    \/ \E v \in IssueVoteReqs : VoteRecount(v)
    \/ DeleteIssueBegin
    \/ DeleteIssueFind
    \/ DeleteIssueRemove
    \/ DeleteIssueCascade

SpecDelete == Init /\ [][NextDelete]_vars

\* vote requests and one GetIssue request
NextRead ==
    \/ \E v \in IssueVoteReqs : VoteBegin(v)
    \/ \E v \in IssueVoteReqs : VoteFindIssue(v)
    \/ \E v \in IssueVoteReqs : VoteCheckExisting(v)
    \/ \E v \in IssueVoteReqs : VoteDeleteOne(v)
    \/ \E v \in IssueVoteReqs : VoteInsertOne(v)
    \/ \E v \in IssueVoteReqs : VoteRecount(v)
    \/ GetIssueBegin
    \/ GetIssueFind
    \/ GetIssueCount

SpecRead == Init /\ [][NextRead]_vars

\* ------------------------------------------------------------ registration
\* RegisterUser up to the first store round trip: 400 when the body does
\* not bind (name, email, password).
RegisterUserBind(g) ==
    /\ rreq[g].pc = "idle"
    /\ \/ rreq' = [rreq EXCEPT ![g] = [@ EXCEPT !.pc = "done", !.status = 400]]
       \/ \E e \in Emails :
            rreq' = [rreq EXCEPT ![g] = [@ EXCEPT !.pc = "count", !.email = e]]
    /\ UNCHANGED userCollection
    /\ UNCHANGED <<limiterVars, voteVars, issueVars, issueCollection>>

\* count, err := userCollection.CountDocuments({email}): 500 on a store
\* error, 400 "User with this email already exists" when count > 0.
RegisterUserCount(g) ==
    /\ rreq[g].pc = "count"
    /\ \E ok \in BOOLEAN :
         IF ~ok
         THEN rreq' = [rreq EXCEPT ![g] = [@ EXCEPT !.pc = "done", !.status = 500]]
         ELSE IF \E u \in userCollection : u.email = rreq[g].email
         THEN rreq' = [rreq EXCEPT ![g] = [@ EXCEPT !.pc = "done", !.status = 400]]
         ELSE rreq' = [rreq EXCEPT ![g] = [@ EXCEPT !.pc = "insert"]]
    /\ UNCHANGED userCollection
    /\ UNCHANGED <<limiterVars, voteVars, issueVars, issueCollection>>

\* user.HashPassword() and userCollection.InsertOne(user): 500 when either
\* fails, 201 with the new user's id otherwise.
RegisterUserInsert(g) ==
    /\ rreq[g].pc = "insert"
    /\ \/ /\ rreq' = [rreq EXCEPT ![g] = [@ EXCEPT !.pc = "done", !.status = 500]]
          /\ UNCHANGED userCollection
       \/ /\ rreq' = [rreq EXCEPT ![g] = [@ EXCEPT !.pc = "done", !.status = 201]]
          /\ userCollection' = userCollection \cup
                                 {[id |-> g, email |-> rreq[g].email]}
    /\ UNCHANGED <<limiterVars, voteVars, issueVars, issueCollection>>

NextRegister ==
    \/ \E g \in RegReqs : RegisterUserBind(g)
    \/ \E g \in RegReqs : RegisterUserCount(g)
    \/ \E g \in RegReqs : RegisterUserInsert(g)

SpecRegister == Init /\ [][NextRegister]_vars

\* the vote requests that run next to a DeleteIssue and an UpdateIssue
OwnerVoteReqs == 1..NOwnerVoteReq

\* vote requests one at a time, one DeleteIssue request and one UpdateIssue
\* request
NextOwner ==
    \/ \E v \in OwnerVoteReqs : VoteSequentialArrival(v)
    \/ \E v \in OwnerVoteReqs : VoteFindIssue(v)
    \/ \E v \in OwnerVoteReqs : VoteCheckExisting(v)
    \/ \E v \in OwnerVoteReqs : VoteDeleteOne(v)
    \/ \E v \in OwnerVoteReqs : VoteInsertOne(v)
    \/ \E v \in OwnerVoteReqs : VoteRecount(v)
    \/ DeleteIssueBegin
    \/ DeleteIssueFind
    \/ DeleteIssueRemove
    \/ DeleteIssueCascade
    \/ UpdateIssueBegin
    \/ UpdateIssueFind
    \/ UpdateIssueApply

SpecOwner == Init /\ [][NextOwner]_vars

\* ================================================================ claims
\* the request went through the limiter's INCR on key k in window e
CountedIn(r, k, e) ==
    req[r].applied /\ LimiterKey(r) = k /\ req[r].epoch = e

\* the limiter called c.Next() for the request
Admitted(r) == req[r].pc = "create" \/ req[r].handler

\* C1: for every (issue, user) pair the votes collection holds at most one
\* Vote document, whatever the interleaving of HandleVoteOnIssue requests.
C1_VoteUniqueness ==
    \A i \in IssueIDs, u \in Principals :
        Cardinality({d \in voteCollection : d.issue = i /\ d.user = u}) <= 1

\* C2: a request whose insert is rejected by the (issue, user) uniqueness
\* constraint answers with success and state voted, never with an error.
C2_ConflictReinterpreted ==
    \A v \in VoteReqs :
        (vreq[v].pc = "done" /\ vreq[v].err = "duplicate")
            => (vreq[v].status = 200 /\ vreq[v].voted)

\* C3: per counter key and window at most limit calls are passed on to the
\* next handler, and every call whose post-increment value exceeds limit
\* ends with 429 without reaching the handler.
C3_AdmissionBound ==
    /\ \A k \in Keys, e \in 0..MaxEpoch :
         Cardinality({r \in Reqs : CountedIn(r, k, e) /\ Admitted(r)}) <= limit
    /\ \A r \in Reqs :
         req[r].count > limit =>
            /\ ~Admitted(r)
            /\ req[r].pc = "done" => req[r].status = 429

\* C3 witness: with limit >= 1, one call of a key's window is admitted and
\* still in flight while another call of the same window has been denied.
C3_Witness ==
    \E r1, r2 \in Reqs :
        /\ limit >= 1
        /\ r1 # r2
        /\ CountedIn(r1, LimiterKey(r1), req[r1].epoch)
        /\ CountedIn(r2, LimiterKey(r1), req[r1].epoch)
        /\ req[r1].pc = "create"
        /\ req[r2].pc = "done" /\ req[r2].status = 429

\* C4: the counter key of a create-issue request is the key of the principal
\* AuthMiddleware verified: same principal, same counter; different
\* principals, different counters.
C4_PrincipalBinding ==
    /\ \A r \in Reqs :
         req[r].applied => LimiterKey(r) = <<"rate_limit:", req[r].user_id>>
    /\ \A r1, r2 \in Reqs :
         (req[r1].applied /\ req[r2].applied) =>
            ((req[r1].user_id = req[r2].user_id)
                <=> (LimiterKey(r1) = LimiterKey(r2)))

\* C5: a request whose increment failed ends with 500 (neither allowed nor
\* 429) and never reaches CreateIssue; every admitted request has had a
\* successful increment.
C5_FailClosed ==
    \A r \in Reqs :
        /\ req[r].incrErr =>
              /\ req[r].pc = "done"
              /\ req[r].status = 500
              /\ ~req[r].handler
        /\ Admitted(r) => (~req[r].incrErr /\ req[r].applied /\ req[r].count >= 1)

\* C5 witness: a request has been aborted on an Incr error while another
\* request has been admitted.
C5_Witness ==
    \E r1, r2 \in Reqs :
        /\ req[r1].incrErr /\ req[r1].pc = "done" /\ req[r1].status = 500
        /\ req[r2].handler

\* C6: a denial whose TTL lookup failed carries a non-zero retry-after.
C6_FailedTTLNonZero ==
    \A r \in Reqs :
        (req[r].status = 429 /\ req[r].ttlErr) => req[r].retry_after > 0

\* C7: every denial carries a retry-after greater than 0 and at most the
\* window length.
C7_RetryAfterRange ==
    \A r \in Reqs :
        req[r].status = 429 =>
            (req[r].retry_after > 0 /\ req[r].retry_after <= Window)

\* C8: in every state every rate-limit key with count > 0 has a finite
\* time-to-live.
C8_CountedKeyHasTTL ==
    \A k \in Keys : count[k] > 0 => ttl[k] \in 1..Window

\* C9: a call that finds the key gone after its TTL elapsed observes 1, is
\* allowed when limit >= 1 and denied when limit = 0, and once its
\* set-expiry step is behind it the key of its window has the window's TTL.
C9_WindowReset ==
    \A r \in Reqs :
        (req[r].fresh /\ ~req[r].incrErr /\ req[r].epoch >= 1)
        => /\ req[r].count = 1
           /\ req[r].pc = "done" =>
                 IF limit >= 1 THEN req[r].handler ELSE req[r].status = 429
           /\ (req[r].pc \in {"ttl", "create", "done"}
                  /\ epoch[LimiterKey(r)] = req[r].epoch)
              => ttl[LimiterKey(r)] \in 1..Window

\* C10: the stored count of a key equals the number of calls that reached
\* the store on that key in the current window, denied calls included.
C10_CountEqualsCalls ==
    \A k \in Keys :
        count[k] = Cardinality({r \in Reqs : CountedIn(r, k, epoch[k])})

\* C10 witness: a key whose count has been pushed beyond limit + 1 by calls
\* of which one was denied.
C10_Witness ==
    \E r \in Reqs :
        /\ req[r].status = 429
        /\ epoch[LimiterKey(r)] = req[r].epoch
        /\ count[LimiterKey(r)] > limit + 1

\* C11: in every window of a key that has been incremented, exactly one
\* caller has observed post-increment value 1 (and so issues the set-expiry).
C11_SingleOpener ==
    \A k \in Keys, e \in 0..MaxEpoch :
        (\E r \in Reqs : CountedIn(r, k, e)) =>
            Cardinality({r \in Reqs : CountedIn(r, k, e) /\ ~req[r].incrErr
                                       /\ req[r].count = 1}) = 1

\* C11 as amended: in every window of a key at most one caller has observed
\* post-increment value 1, exactly one when the Incr that created the key
\* returned its reply, and only that caller issues the set-expiry.
C11_AtMostOneOpener ==
    \A k \in Keys, e \in 0..MaxEpoch :
        LET observers == {r \in Reqs : CountedIn(r, k, e) /\ ~req[r].incrErr
                                        /\ req[r].count = 1}
        IN /\ Cardinality(observers) <= 1
           /\ (\E r \in Reqs : CountedIn(r, k, e) /\ req[r].fresh
                                  /\ ~req[r].incrErr)
                 => Cardinality(observers) = 1
           /\ \A r \in Reqs : (CountedIn(r, k, e) /\ req[r].pc = "expire")
                 => r \in observers

\* C11 witness: two first requests of a key in flight together, one about to
\* set the expiry after observing 1, the other having observed 2.
C11_Witness ==
    \E r1, r2 \in Reqs :
        /\ r1 # r2
        /\ CountedIn(r2, LimiterKey(r1), req[r1].epoch)
        /\ req[r1].pc = "expire" /\ req[r1].count = 1
        /\ req[r2].pc # "done" /\ req[r2].count = 2

\* C12: among non-overlapping calls of one principal within one window whose
\* store round trips answered, the i-th call is allowed exactly when
\* i <= limit, and a denied call gets 429 with the remaining time of the
\* window as retry-after.
C12_SequentialAdmission ==
    \A r \in Reqs :
        LET mine == {q \in Reqs : q <= r /\ req[q].token # NoToken
                                    /\ req[q].user_id = req[r].user_id}
        IN (/\ req[r].pc = "done" /\ req[r].token # NoToken
            /\ \A q \in mine : req[q].pc = "done" /\ ~req[q].incrErr
                                 /\ ~req[q].ttlErr /\ req[q].epoch = 0)
           => /\ req[r].handler <=> Cardinality(mine) <= limit
              /\ ~req[r].handler =>
                    (req[r].status = 429 /\ req[r].retry_after \in 1..Window)

\* C13: a create-issue request without a verified principal is answered 401
\* by AuthMiddleware and never reaches the limiter's INCR: it creates and
\* increments no rate-limit key.
C13_MissingPrincipal ==
    /\ \A r \in Reqs :
         (req[r].pc # "idle" /\ req[r].token = NoToken) =>
            (req[r].pc = "done" /\ req[r].status = 401 /\ ~req[r].applied
             /\ ~req[r].handler)
    /\ \A k \in Keys :
         (\A r \in Reqs : req[r].applied => req[r].token # NoToken)
         /\ ((\A r \in Reqs : ~req[r].applied) =>
                (count[k] = 0 /\ ttl[k] = NoKey))

\* C13 witness: a rejected request with no token next to a counted one; the
\* key of the counted request still holds exactly its own increment.
C13_Witness ==
    \E r1, r2 \in Reqs :
        /\ req[r1].applied /\ req[r1].epoch = epoch[LimiterKey(r1)]
        /\ req[r2].pc = "done" /\ req[r2].token = NoToken
        /\ req[r2].status = 401
        /\ count[LimiterKey(r1)] = 1

\* C14: the CreateIssue handler, failing or not, leaves the counter store as
\* it is, and no step takes a counter down or removes a key other than the
\* key's own expiry.
C14_NoRefund ==
    [][/\ \A r \in Reqs :
            (req[r].pc = "create" /\ req'[r].pc = "done") =>
                (count' = count /\ ttl' = ttl)
       /\ \A k \in Keys :
            (count'[k] < count[k] \/ (ttl[k] # NoKey /\ ttl'[k] = NoKey)) =>
                (ttl[k] = 1 /\ req' = req)]_vars

\* C14 witness: an admitted request whose handler failed, in a window that
\* is still open and still counts every increment applied in it.
C14_Witness ==
    \E r \in Reqs :
        /\ req[r].pc = "done" /\ req[r].handler
        /\ req[r].status \in {400, 500}
        /\ req[r].applied /\ req[r].epoch = epoch[LimiterKey(r)]
        /\ count[LimiterKey(r)] =
              Cardinality({q \in Reqs :
                             CountedIn(q, LimiterKey(r), req[r].epoch)})
        /\ count[LimiterKey(r)] >= 1

\* the toggles of user u on issue i that the store applied, up to request v
TogglesUpTo(v, i, u) ==
    {q \in VoteReqs : q <= v /\ (vreq[q].inserted \/ vreq[q].deleted = 1)
                        /\ vreq[q].issue = i /\ vreq[q].user = u}

\* C15: with one call at a time on an existing issue, starting without a
\* vote, a pair holds one document after an odd number of applied toggles
\* and none after an even number; each answered toggle reports voted for odd
\* and unvoted for even, with count 1 and 0 when no other user has changed
\* the issue's votes.
C15_ToggleParity ==
    (\A q \in VoteReqs : vreq[q].pc \in {"idle", "done"}) =>
        /\ \A i \in IssueIDs, u \in Principals :
             Cardinality({d \in voteCollection : d.issue = i /\ d.user = u})
                = Cardinality(TogglesUpTo(NVoteReq, i, u)) % 2
        /\ \A v \in VoteReqs :
             vreq[v].status = 200 =>
                LET k == Cardinality(TogglesUpTo(v, vreq[v].issue, vreq[v].user))
                IN /\ vreq[v].voted <=> (k % 2 = 1)
                   /\ (\A q \in VoteReqs :
                          (q < v /\ (vreq[q].inserted \/ vreq[q].deleted = 1)
                             /\ vreq[q].issue = vreq[v].issue)
                          => vreq[q].user = vreq[v].user)
                      => vreq[v].votes = k % 2

\* C15 witness: the same user has toggled one issue three times, with
\* answers voted/1, unvoted/0, voted/1, and holds one vote at the end.
C15_Witness ==
    \E v \in VoteReqs :
        /\ Cardinality(TogglesUpTo(v, 0, "u1")) = 3
        /\ vreq[v].status = 200 /\ vreq[v].issue = 0 /\ vreq[v].user = "u1"
        /\ vreq[v].voted /\ vreq[v].votes = 1
        /\ \A q \in VoteReqs : q > v => vreq[q].pc = "idle"
        /\ vreq[1].status = 200 /\ vreq[1].voted /\ vreq[1].votes = 1
        /\ \E q \in TogglesUpTo(v, 0, "u1") :
              ~vreq[q].voted /\ vreq[q].votes = 0
        /\ Cardinality({d \in voteCollection : d.issue = 0 /\ d.user = "u1"}) = 1

\* the requests whose InsertOne stored a vote of user u on issue i
InsertedBy(i, u) ==
    {q \in VoteReqs : vreq[q].issue = i /\ vreq[q].user = u
                        /\ vreq[q].inserted}

\* C16: two requests of one user on one issue that both found the vote and
\* both went to delete it are both answered 200 unvoted when the store
\* answered, whichever of them removed the document; the pair ends without
\* a vote when one insert had created it.
C16_DeleteRaceIdempotent ==
    \A v1, v2 \in VoteReqs :
        (/\ v1 # v2
         /\ vreq[v1].issue = vreq[v2].issue /\ vreq[v1].user = vreq[v2].user
         /\ vreq[v1].pc = "done" /\ vreq[v2].pc = "done"
         /\ vreq[v1].count > 0 /\ vreq[v2].count > 0
         /\ vreq[v1].err = "" /\ vreq[v2].err = "")
        => /\ vreq[v1].status = 200 /\ ~vreq[v1].voted
           /\ vreq[v2].status = 200 /\ ~vreq[v2].voted
           /\ Cardinality(InsertedBy(vreq[v1].issue, vreq[v1].user)) = 1
                => {d \in voteCollection : d.issue = vreq[v1].issue
                                           /\ d.user = vreq[v1].user} = {}

\* C16 witness: both requests saw the vote, one delete removed it and the
\* other matched nothing, both were answered 200 unvoted, no vote is left.
C16_Witness ==
    \E v1, v2 \in VoteReqs :
        /\ v1 # v2
        /\ vreq[v1].issue = vreq[v2].issue /\ vreq[v1].user = vreq[v2].user
        /\ vreq[v1].count = 1 /\ vreq[v2].count = 1
        /\ vreq[v1].status = 200 /\ vreq[v2].status = 200
        /\ ~vreq[v1].voted /\ ~vreq[v2].voted
        /\ vreq[v1].deleted = 1 /\ vreq[v2].deleted = 0
        /\ {d \in voteCollection : d.issue = vreq[v1].issue
                                    /\ d.user = vreq[v1].user} = {}

\* C17: the vote count in a 200 response of HandleVoteOnIssue and the votes
\* value in a 200 response of GetIssue equal the number of vote documents
\* of the issue in the store at the handler's count step.
C17_DerivedVoteCount ==
    /\ \A v \in VoteReqs :
         vreq[v].status = 200 => vreq[v].votes = vreq[v].actual
    /\ greq.status = 200 => greq.votes = greq.actual

\* C18: a vote request with a malformed issue id is answered 400 in its
\* first step, and one whose issue lookup finds no issue is answered 404 in
\* that step; neither step changes the vote or issue collection, and a
\* request answered 400 or 404 has run no count, insert or delete.
C18_TogglePreconditions ==
    [][\A v \in VoteReqs :
         /\ (vreq[v].pc = "idle" /\ vreq'[v].pc # "idle"
                /\ vreq'[v].status # 401 /\ vreq'[v].issue \notin IssueIDs)
             => (vreq'[v].pc = "done" /\ vreq'[v].status = 400
                 /\ voteCollection' = voteCollection
                 /\ issueCollection' = issueCollection)
         /\ (vreq[v].pc = "find" /\ vreq'[v].pc # "find"
                /\ vreq'[v].err = ""
                /\ \A d \in issueCollection : d.id # vreq[v].issue)
             => (vreq'[v].pc = "done" /\ vreq'[v].status = 404
                 /\ voteCollection' = voteCollection
                 /\ issueCollection' = issueCollection)
         /\ vreq'[v].status \in {400, 404}
             => (vreq'[v].count = 0 /\ ~vreq'[v].voted
                 /\ vreq'[v].deleted = 0
                 /\ \A d \in voteCollection' : d.id # v)]_vars

\* C18 witness: one request was answered 404 for an issue that had been
\* deleted, another 400 for a malformed id, and nothing was stored for them.
C18_Witness ==
    \E v, w \in VoteReqs :
        /\ vreq[v].pc = "done" /\ vreq[v].status = 404 /\ vreq[v].issue = 0
        /\ dreq.status = 200 /\ dreq.issue = 0
        /\ vreq[w].pc = "done" /\ vreq[w].status = 400
        /\ vreq[w].issue \notin IssueIDs
        /\ voteCollection = {}

\* C19: once DeleteIssue has answered 200 for an issue, no vote document
\* of that issue is in the votes collection.
C19_CascadeOnDeletion ==
    (dreq.pc = "done" /\ dreq.status = 200) =>
        {d \in voteCollection : d.issue = dreq.issue} = {}

\* C19 as amended: once DeleteIssue has answered 200 for an issue the issue
\* document is gone, and when its bulk delete succeeded the only votes of
\* the issue left are those inserted, after the issue document was removed,
\* by vote requests that had found the issue before.
C19_CascadeBestEffort ==
    (dreq.pc = "done" /\ dreq.status = 200) =>
        /\ \A d \in issueCollection : d.id # dreq.issue
        /\ dreq.cascaded =>
             \A d \in voteCollection :
                d.issue = dreq.issue => vreq[d.id].orphan

\* C19 witness: a vote stored while the issue existed is gone after a
\* DeleteIssue whose bulk delete succeeded.
C19_Witness ==
    /\ dreq.pc = "done" /\ dreq.status = 200 /\ dreq.cascaded
    /\ \E v \in VoteReqs :
         /\ vreq[v].issue = dreq.issue /\ vreq[v].status = 200
         /\ vreq[v].voted /\ ~vreq[v].orphan
    /\ {d \in voteCollection : d.issue = dreq.issue} = {}

\* C20: a DeleteIssue request that has removed the issue document ends
\* with 200 whether or not its bulk delete of the votes succeeded, and the
\* issue document stays removed.
C20_BestEffortCascade ==
    dreq.removed =>
        /\ \A d \in issueCollection : d.id # dreq.issue
        /\ dreq.pc \in {"cascade", "done"}
        /\ dreq.pc = "done" => dreq.status = 200

\* C20 witness: the bulk delete failed and left a vote behind; the request
\* was answered 200 and the issue is gone.
C20_Witness ==
    /\ dreq.pc = "done" /\ dreq.status = 200
    /\ dreq.removed /\ ~dreq.cascaded
    /\ \E d \in voteCollection : d.issue = dreq.issue
    /\ \A d \in issueCollection : d.id # dreq.issue

\* C21: a vote request one of whose store round trips (issue lookup,
\* existing-vote check, insert, delete) failed or timed out ends with 500,
\* and the store has neither inserted nor removed a vote for it.
C21_StoreFailureNoEffect ==
    \A v \in VoteReqs :
        vreq[v].err = "store" =>
            /\ vreq[v].pc = "done" /\ vreq[v].status = 500
            /\ ~vreq[v].inserted /\ vreq[v].deleted = 0

\* the vote requests that got as far as the store for issue i
Participants(i) ==
    {v \in VoteReqs : vreq[v].pc # "idle" /\ vreq[v].issue = i
                        /\ vreq[v].status \notin {400, 401}}

\* different users, none of whom had voted, have all been answered on the
\* existing issue i without a store failure: all voted, count = their number
AllVoted(i) ==
    (/\ \E d \in issueCollection : d.id = i
     /\ \A v \in Participants(i) : vreq[v].pc = "done" /\ vreq[v].err = ""
     /\ \A v, w \in Participants(i) : vreq[v].user = vreq[w].user => v = w)
    => /\ \A v \in Participants(i) : vreq[v].status = 200 /\ vreq[v].voted
       /\ Cardinality({d \in voteCollection : d.issue = i})
             = Cardinality(Participants(i))

\* C22: every vote document a step inserts or removes belongs to the
\* (issue, user) pair of the request taking the step, and different users
\* toggling one issue, concurrently or not, all end voted with the issue's
\* count equal to their number.
C22_UserIndependence ==
    [][/\ \A d \in (voteCollection' \ voteCollection)
                      \cup (voteCollection \ voteCollection') :
            \E v \in VoteReqs :
                /\ vreq[v].pc \in {"insert", "delete"}
                /\ vreq'[v].pc # vreq[v].pc
                /\ d.issue = vreq[v].issue /\ d.user = vreq[v].user
       /\ \A i \in IssueIDs : AllVoted(i)']_vars

\* C22 witness: u1 and u2 voted on issue 0 at the same time (the recount of
\* the first request already counts the vote of the second), both were
\* answered voted and the issue has two votes.
C22_Witness ==
    \E v, w \in VoteReqs :
        /\ v < w
        /\ Participants(0) = {v, w}
        /\ vreq[v].user # vreq[w].user
        /\ vreq[v].status = 200 /\ vreq[v].voted /\ vreq[v].votes = 2
        /\ vreq[w].status = 200 /\ vreq[w].voted
        /\ Cardinality({d \in voteCollection : d.issue = 0}) = 2

\* C23: a step gives a rate-limit key an expiry only when it is the Expire
\* of the request that observed post-increment value 1 in the key's current
\* window, on a key that has no expiry yet; no step of a request that
\* observed a larger value changes any key's TTL.
C23_WindowNeverExtended ==
    [][/\ \A k \in Keys :
            (ttl'[k] > 0 /\ ttl'[k] > ttl[k]) =>
                /\ ttl[k] = NoExpiry /\ ttl'[k] = Window
                /\ \E r \in Reqs :
                      /\ req[r].pc = "expire" /\ req'[r].pc # "expire"
                      /\ <<"rate_limit:", req[r].header>> = k
                      /\ req[r].count = 1 /\ req[r].epoch = epoch[k]
       /\ \A r \in Reqs :
            (req'[r] # req[r] /\ req'[r].count > 1) => ttl' = ttl]_vars

\* C23 witness: a request denied later in the window found the TTL the
\* opener set, already run down, and left it as it was.
C23_Witness ==
    \E r \in Reqs :
        /\ req[r].pc = "done" /\ req[r].status = 429 /\ req[r].count > 1
        /\ req[r].epoch = epoch[LimiterKey(r)]
        /\ req[r].retry_after > 0 /\ req[r].retry_after < Window
        /\ ttl[LimiterKey(r)] = req[r].retry_after

\* C24: no rate-limit key is left to live forever: a key that exists
\* without an expiry still has the request that opened its window in front
\* of its set-expiry step (nothing else ever gives the key an expiry, and
\* without one it never goes away and the counter never returns to 1).
C24_DenialNotPermanent ==
    \A k \in Keys :
        (count[k] > 0 /\ ttl[k] = NoExpiry) =>
            \E r \in Reqs : /\ req[r].pc = "expire"
                             /\ <<"rate_limit:", req[r].header>> = k
                             /\ req[r].epoch = epoch[k]

\* the issue document the CreateIssue of request r has inserted
IssueOf(r) == {d \in issueCollection : d.id = r}

\* C25: a request the limiter answered 429, or 500 after a failed INCR,
\* never runs CreateIssue and inserts no issue, so the issues inserted for
\* one counter key in one window are at most limit.
C25_DeniedNeverCreates ==
    /\ \A r \in Reqs :
         (req[r].status = 429 \/ req[r].incrErr \/ req[r].count > limit) =>
            (req[r].pc # "create" /\ ~req[r].handler /\ IssueOf(r) = {})
    /\ \A k \in Keys, e \in 0..MaxEpoch :
         Cardinality({r \in Reqs : CountedIn(r, k, e) /\ IssueOf(r) # {}})
            <= limit

\* C25 witness: in one window of a key, limit = 1, one request has inserted
\* its issue and another was answered 429 and inserted none.
C25_Witness ==
    \E r1, r2 \in Reqs :
        /\ limit = 1
        /\ CountedIn(r2, LimiterKey(r1), req[r1].epoch)
        /\ CountedIn(r1, LimiterKey(r1), req[r1].epoch)
        /\ req[r1].status = 201 /\ IssueOf(r1) # {}
        /\ req[r2].pc = "done" /\ req[r2].status = 429 /\ IssueOf(r2) = {}

\* the calls of key k the limiter allowed whose increments ran at times
\* t .. t + Window
AllowedInSpan(k, t) ==
    {r \in BurstReqs : /\ req[r].applied /\ ~req[r].incrErr
                         /\ <<"rate_limit:", req[r].header>> = k
                         /\ req[r].count <= limit
                         /\ req[r].at >= t /\ req[r].at <= t + Window}

\* C26: the calls allowed for one key in a time span of one window length
\* are at most 2 * limit, and when they are more than limit they lie in
\* different windows of the key (the key expired within the span).
C26_BoundaryBurst ==
    \A k \in Keys, t \in 0..now :
        /\ Cardinality(AllowedInSpan(k, t)) <= 2 * limit
        /\ Cardinality(AllowedInSpan(k, t)) > limit =>
              \E r, q \in AllowedInSpan(k, t) : req[r].epoch # req[q].epoch

\* C26 witness: limit = 1 and three calls allowed in three successive
\* windows of the key, two of them within one window length.
C26_Witness ==
    \E r1, r2, r3 \in BurstReqs :
        /\ limit = 1
        /\ {r1, r2, r3} \subseteq AllowedInSpan(Key("u1"), 0)
                                    \cup AllowedInSpan(Key("u1"), Window)
        /\ req[r1].epoch < req[r2].epoch /\ req[r2].epoch < req[r3].epoch
        /\ req[r2].at - req[r1].at <= Window
        /\ Cardinality(AllowedInSpan(Key("u1"), req[r1].at)) = 2

\* C27: every step that removes or changes an issue document is the
\* DeleteOne of a DeleteIssue or the UpdateOne of an UpdateIssue called by
\* the issue's creator, votes are bulk-deleted only after such a DeleteOne,
\* and the step that answers 403 changes neither issues nor votes.
C27_OwnerOnlyMutation ==
    [][/\ \A d \in issueCollection \ issueCollection' :
            \/ /\ dreq.pc = "remove" /\ dreq'.pc # "remove"
               /\ dreq.issue = d.id /\ dreq.user = d.createdBy
            \/ /\ ureq.pc = "update" /\ ureq'.pc # "update"
               /\ ureq.issue = d.id /\ ureq.user = d.createdBy
               /\ \E d2 \in issueCollection' :
                     d2.id = d.id /\ d2.createdBy = d.createdBy
       /\ (dreq.pc = "cascade" /\ dreq'.pc # "cascade") => dreq.removed
       /\ ((dreq'.status = 403 /\ dreq.status # 403)
             \/ (ureq'.status = 403 /\ ureq.status # 403))
           => (issueCollection' = issueCollection
               /\ voteCollection' = voteCollection)
       /\ dreq'.status = 403 => (dreq'.pc = "done" /\ ~dreq'.removed)
       /\ ureq'.status = 403 => (ureq'.pc = "done" /\ ~ureq'.updated)]_vars

\* C27 witness: u2 was answered 403 by DeleteIssue and by UpdateIssue on
\* the issue of u1, which is still there with its title and its vote.
C27_Witness ==
    /\ dreq.status = 403 /\ dreq.user = "u2" /\ dreq.issue = 0
    /\ ureq.status = 403 /\ ureq.user = "u2" /\ ureq.issue = 0
    /\ [id |-> 0, createdBy |-> "u1", title |-> "a"] \in issueCollection
    /\ \E d \in voteCollection : d.issue = 0

\* C28: the users collection holds at most one user document per email
\* address, and of two requests for one email at most one is answered 201.
C28_EmailUniqueness ==
    /\ \A e \in Emails :
         Cardinality({u \in userCollection : u.email = e}) <= 1
    /\ \A g, h \in RegReqs :
         (g # h /\ rreq[g].status = 201 /\ rreq[h].status = 201)
            => rreq[g].email # rreq[h].email
====
